---- MODULE Spec2Model ----
(***************************************************************************)
(* Model of src/main.py: a Streamlit page that authorises a Google account *)
(* with OAuth 2.0 and fetches YouTube Data API resources.                  *)
(*                                                                         *)
(* One session is modelled.  Streamlit runs main() from top to bottom on   *)
(* every page load (rerun); st.session_state and the URL query parameters  *)
(* survive between page loads, everything else is rebuilt.  The position   *)
(* of the running script is pc; pc = "idle" means no script is running and *)
(* the page of the last run is on screen.  The outcomes of the calls that  *)
(* leave the program (token endpoint, discovery build, API requests) are   *)
(* chosen nondeterministically.                                            *)
(***************************************************************************)
EXTENDS Integers, Sequences, FiniteSets, TLC

VARIABLES
    credentials,   \* st.session_state["credentials"], or NoCred when the key is absent
    queryCode,     \* the URL's `code` query parameter, or NoCode
    option,        \* the value st.radio returns (widget state of the session)
    clicked,       \* the value st.button("Fetch Data") returns in this run
    pc,            \* position of the running script
    youtube,       \* local `youtube`: the credentials the client was built with
    response,      \* local `response` of show_data_options
    items,         \* local `items` of fetch_channel_comments
    channel_id,    \* local `channel_id` of fetch_channel_comments
    display,       \* what the st.* calls of this page load have put on the page
    requests,      \* the API requests executed in this page load
    invoked,       \* the fetch_* functions called in this page load
    trace,         \* the phases this page load went through, in order
    exchangeLog,   \* every code passed to flow.fetch_token in the session
    okBundles,     \* the bundles successful token exchanges returned in the session
    raised,        \* the exception raised in this page load, and by which call
    crashed,       \* this page load ended with an exception nothing caught
    loads          \* page loads started in the session

vars == <<credentials, queryCode, option, clicked, pc, youtube, response,
          items, channel_id, display, requests, invoked, trace, exchangeLog,
          okBundles, raised, crashed, loads>>

----------------------------------------------------------------------------
(* Bounds of the model *)

MaxLoads == 4

(* Program constants *)

MaxResults == 10

(* The absent session_state key, as a bundle no exchange returns. *)
NoCred == [token |-> "NoCode", serial |-> 0]
NoCode == "NoCode"
None == "None"
NoRaise == [at |-> "none", exc |-> "none"]

Codes == {"codeA", "codeB"}

LikedVideos == "Liked Videos"
Comments == "Comments"
Shares == "Shares (Placeholder)"
Playlists == "Playlists"
Subscriptions == "Subscriptions"

Options == {LikedVideos, Comments, Shares, Playlists, Subscriptions}

(* A value st.radio does not return for this options list; only the        *)
(* specification SpecAnyOption feeds it to the dispatcher.                 *)
OtherLabel == "Other"

(* channels().list responses: the "items" key absent, or a list of items.  *)
ChannelsResponses ==
    {[hasItems |-> FALSE, items |-> <<>>]} \cup
    {[hasItems |-> TRUE, items |-> l] :
        l \in {<<>>, <<"UC1">>, <<"UC2">>, <<"UC1", "UC2">>, <<"UC2", "UC1">>}}

(* What a call that leaves the program may raise: googleapiclient's        *)
(* HttpError, or any other Exception.                                      *)
Exceptions == {"HttpError", "Exception"}

Msg(kind, text) == [kind |-> kind, text |-> text]

----------------------------------------------------------------------------
(* The API requests the fetchers build.  maxResults is the set of values   *)
(* given for the keyword: empty when the call does not pass it.            *)

LikedReq(yt) ==
    [api |-> "videos", part |-> "snippet,contentDetails",
     filter |-> <<"myRating", "like">>, maxResults |-> {MaxResults}, cred |-> yt]

SubscriptionsReq(yt) ==
    [api |-> "subscriptions", part |-> "snippet,contentDetails",
     filter |-> <<"mine", "True">>, maxResults |-> {MaxResults}, cred |-> yt]

PlaylistsReq(yt) ==
    [api |-> "playlists", part |-> "snippet,contentDetails",
     filter |-> <<"mine", "True">>, maxResults |-> {MaxResults}, cred |-> yt]

ChannelsReq(yt) ==
    [api |-> "channels", part |-> "id",
     filter |-> <<"mine", "True">>, maxResults |-> {}, cred |-> yt]

CommentThreadsReq(yt, id) ==
    [api |-> "commentThreads", part |-> "snippet",
     filter |-> <<"allThreadsRelatedToChannelId", id>>,
     maxResults |-> {MaxResults}, cred |-> yt]

SimpleFetchers == {"fetch_liked_videos", "fetch_subscriptions", "fetch_playlists"}

RequestOf(fetcher, yt) ==
    CASE fetcher = "fetch_liked_videos" -> LikedReq(yt)
      [] fetcher = "fetch_subscriptions" -> SubscriptionsReq(yt)
      [] fetcher = "fetch_playlists" -> PlaylistsReq(yt)

(* channels_response.get("items", []) *)
ItemsOf(resp) == IF resp.hasItems THEN resp.items ELSE <<>>

----------------------------------------------------------------------------
Init ==
    /\ credentials = NoCred
    /\ queryCode \in {NoCode} \cup Codes
    /\ option = LikedVideos
    /\ clicked = FALSE
    /\ pc = "idle"
    /\ youtube = NoCred
    /\ response = None
    /\ items = <<>>
    /\ channel_id = None
    /\ display = <<>>
    /\ requests = <<>>
    /\ invoked = <<>>
    /\ trace = <<>>
    /\ exchangeLog = <<>>
    /\ okBundles = {}
    /\ raised = NoRaise
    /\ crashed = FALSE
    /\ loads = 0

(* The radio and the button are on the page of the last run. *)
SelectorOnPage == \E i \in 1..Len(display) : display[i].kind = "radio"

(* Streamlit starts main() again: st.title is the first call. *)
StartRun ==
    /\ pc = "idle"
    /\ loads < MaxLoads
    /\ loads' = loads + 1
    /\ pc' = "session_check"
    /\ youtube' = NoCred
    /\ response' = None
    /\ items' = <<>>
    /\ channel_id' = None
    /\ display' = <<Msg("title", "YouTube Activity Retriever")>>
    /\ requests' = <<>>
    /\ invoked' = <<>>
    /\ trace' = <<>>
    /\ raised' = NoRaise
    /\ crashed' = FALSE
    /\ UNCHANGED <<credentials, queryCode, exchangeLog, okBundles>>

(* The page is opened, or rerun without touching a widget. *)
Rerun ==
    /\ StartRun
    /\ clicked' = FALSE
    /\ UNCHANGED option

(* The user picks a radio option: a rerun in which the button is not pressed. *)
Radio(S) ==
    \E o \in S :
        /\ SelectorOnPage
        /\ StartRun
        /\ option' = o
        /\ clicked' = FALSE

SelectOption == Radio(Options)

SelectAnyOption == Radio(Options \cup {OtherLabel})

(* The user presses Fetch Data: a rerun in which st.button returns True. *)
ClickFetch ==
    /\ SelectorOnPage
    /\ StartRun
    /\ clicked' = TRUE
    /\ UNCHANGED option

----------------------------------------------------------------------------
(* main() *)

session == <<credentials, queryCode, exchangeLog, okBundles>>
widgets == <<option, clicked, loads>>
locals == <<youtube, response, items, channel_id>>

Show(m) == display' = Append(display, m)

(* if "credentials" in st.session_state: st.success(...) *)
SessionCheck ==
    /\ pc = "session_check"
    /\ trace' = Append(trace, "session_check")
    /\ IF credentials # NoCred
       THEN /\ Show(Msg("success", "Already authenticated with YouTube!"))
            /\ pc' = "build_auth"
       ELSE /\ pc' = "code_check"
            /\ UNCHANGED display
    /\ UNCHANGED <<session, widgets, locals, requests, invoked, raised, crashed>>

(* youtube = build_youtube_client(st.session_state["credentials"]) returns *)
BuildAuthOk ==
    /\ pc = "build_auth"
    /\ youtube' = credentials
    /\ pc' = "selector"
    /\ UNCHANGED <<session, widgets, response, items, channel_id, display, requests,
                   invoked, trace, raised, crashed>>

(* the same call raises: no try encloses it, the exception leaves main() *)
BuildAuthRaises ==
    /\ pc = "build_auth"
    /\ \E exc \in Exceptions : raised' = [at |-> "build", exc |-> exc]
    /\ crashed' = TRUE
    /\ pc' = "idle"
    /\ UNCHANGED <<session, widgets, locals, display, requests, invoked, trace>>

(* A code check that shows the selector when the URL carries no code. *)
CodeCheckShowsSelector ==
    /\ pc = "code_check"
    /\ trace' = Append(trace, "code_check")
    /\ pc' = IF queryCode = NoCode THEN "selector" ELSE "exchange"
    /\ UNCHANGED <<session, widgets, locals, display, requests, invoked, raised, crashed>>

(* query_params = st.experimental_get_query_params(); if "code" not in ...  *)
CodeCheck ==
    /\ pc = "code_check"
    /\ IF queryCode = NoCode
       THEN /\ display' = display \o
                    <<Msg("markdown", "Authorize with Google"),
                      Msg("info", "Click the link above to authorize the app")>>
            /\ trace' = trace \o <<"code_check", "auth_link">>
            /\ pc' = "idle"
       ELSE /\ trace' = Append(trace, "code_check")
            /\ pc' = "exchange"
            /\ UNCHANGED display
    /\ UNCHANGED <<session, widgets, locals, requests, invoked, raised, crashed>>

(* The bundle flow.credentials holds after the n-th call of fetch_token. *)
Bundle(code, n) == [token |-> code, serial |-> n]

(* flow.fetch_token(code=code) returns;                                     *)
(* st.session_state["credentials"] = flow.credentials                       *)
ExchangeOk ==
    /\ pc = "exchange"
    /\ exchangeLog' = Append(exchangeLog, queryCode)
    /\ credentials' = Bundle(queryCode, Len(exchangeLog) + 1)
    /\ okBundles' = okBundles \cup {Bundle(queryCode, Len(exchangeLog) + 1)}
    /\ trace' = Append(trace, "exchange")
    /\ pc' = "clear_params"
    /\ UNCHANGED <<queryCode, widgets, locals, display, requests, invoked, raised, crashed>>

(* A handler that stores flow.credentials although fetch_token raised. *)
ExchangeFailStores ==
    /\ pc = "exchange"
    /\ exchangeLog' = Append(exchangeLog, queryCode)
    /\ \E exc \in Exceptions : raised' = [at |-> "fetch_token", exc |-> exc]
    /\ credentials' = Bundle(queryCode, Len(exchangeLog) + 1)
    /\ Show(Msg("error", "Error fetching token"))
    /\ trace' = Append(trace, "exchange")
    /\ pc' = "idle"
    /\ UNCHANGED <<queryCode, okBundles, widgets, locals, requests, invoked, crashed>>

(* A handler that clears the query parameters when fetch_token raised. *)
ExchangeFailClears ==
    /\ pc = "exchange"
    /\ exchangeLog' = Append(exchangeLog, queryCode)
    /\ \E exc \in Exceptions : raised' = [at |-> "fetch_token", exc |-> exc]
    /\ queryCode' = NoCode
    /\ Show(Msg("error", "Error fetching token"))
    /\ trace' = Append(trace, "exchange")
    /\ pc' = "idle"
    /\ UNCHANGED <<credentials, okBundles, widgets, locals, requests, invoked, crashed>>

(* flow.fetch_token(code=code) raises: except Exception -> st.error *)
ExchangeFail ==
    /\ pc = "exchange"
    /\ exchangeLog' = Append(exchangeLog, queryCode)
    /\ \E exc \in Exceptions : raised' = [at |-> "fetch_token", exc |-> exc]
    /\ Show(Msg("error", "Error fetching token"))
    /\ trace' = Append(trace, "exchange")
    /\ pc' = "idle"
    /\ UNCHANGED <<credentials, queryCode, okBundles, widgets, locals, requests,
                   invoked, crashed>>

(* st.experimental_set_query_params(); st.success(...) *)
ClearParams ==
    /\ pc = "clear_params"
    /\ queryCode' = NoCode
    /\ Show(Msg("success", "Successfully authenticated!"))
    /\ pc' = "build_new"
    /\ UNCHANGED <<credentials, exchangeLog, okBundles, widgets, locals, requests,
                   invoked, trace, raised, crashed>>

(* youtube = build_youtube_client(...) inside the try, returns *)
BuildNewOk ==
    /\ pc = "build_new"
    /\ youtube' = credentials
    /\ pc' = "selector"
    /\ UNCHANGED <<session, widgets, response, items, channel_id, display, requests,
                   invoked, trace, raised, crashed>>

(* the same call raises: the except of the token exchange catches it *)
BuildNewRaises ==
    /\ pc = "build_new"
    /\ \E exc \in Exceptions : raised' = [at |-> "build", exc |-> exc]
    /\ Show(Msg("error", "Error fetching token"))
    /\ pc' = "idle"
    /\ UNCHANGED <<session, widgets, locals, requests, invoked, trace, crashed>>

----------------------------------------------------------------------------
(* show_data_options(youtube) *)

(* st.write, st.radio, st.button *)
ShowSelector ==
    /\ pc = "selector"
    /\ display' = display \o
            <<Msg("write", "Select the type of YouTube data to retrieve:"),
              Msg("radio", "Data type"), Msg("button", "Fetch Data")>>
    /\ trace' = Append(trace, "selector")
    /\ pc' = IF clicked THEN "dispatch" ELSE "idle"
    /\ UNCHANGED <<session, widgets, locals, requests, invoked, raised, crashed>>

(* response = fetch_xxx(youtube): control enters the fetcher *)
CallFetcher(f, at) ==
    /\ invoked' = Append(invoked, f)
    /\ trace' = Append(trace, "fetch")
    /\ pc' = at
    /\ UNCHANGED display

(* st.warning / st.error followed by return *)
ReportAndReturn(m) ==
    /\ Show(m)
    /\ trace' = Append(trace, "render")
    /\ pc' = "idle"
    /\ UNCHANGED invoked

(* A Shares branch that calls a fetcher instead of returning. *)
DispatchSharesFetches ==
    /\ pc = "dispatch"
    /\ IF option = LikedVideos THEN CallFetcher("fetch_liked_videos", "call")
       ELSE IF option = Comments THEN CallFetcher("fetch_channel_comments", "channels")
       ELSE IF option = Shares THEN CallFetcher("fetch_liked_videos", "call")
       ELSE IF option = Playlists THEN CallFetcher("fetch_playlists", "call")
       ELSE IF option = Subscriptions THEN CallFetcher("fetch_subscriptions", "call")
       ELSE ReportAndReturn(Msg("error", "Invalid option selected."))
    /\ UNCHANGED <<session, widgets, locals, requests, raised, crashed>>

(* The Playlists and Subscriptions branches with their fetchers exchanged. *)
DispatchSwapped ==
    /\ pc = "dispatch"
    /\ IF option = LikedVideos THEN CallFetcher("fetch_liked_videos", "call")
       ELSE IF option = Comments THEN CallFetcher("fetch_channel_comments", "channels")
       ELSE IF option = Shares
       THEN ReportAndReturn(Msg("warning", "YouTube API does not provide direct 'Shares' data."))
       ELSE IF option = Playlists THEN CallFetcher("fetch_subscriptions", "call")
       ELSE IF option = Subscriptions THEN CallFetcher("fetch_playlists", "call")
       ELSE ReportAndReturn(Msg("error", "Invalid option selected."))
    /\ UNCHANGED <<session, widgets, locals, requests, raised, crashed>>

(* the if/elif chain on option *)
Dispatch ==
    /\ pc = "dispatch"
    /\ IF option = LikedVideos THEN CallFetcher("fetch_liked_videos", "call")
       ELSE IF option = Comments THEN CallFetcher("fetch_channel_comments", "channels")
       ELSE IF option = Shares
       THEN ReportAndReturn(Msg("warning", "YouTube API does not provide direct 'Shares' data."))
       ELSE IF option = Playlists THEN CallFetcher("fetch_playlists", "call")
       ELSE IF option = Subscriptions THEN CallFetcher("fetch_subscriptions", "call")
       ELSE ReportAndReturn(Msg("error", "Invalid option selected."))
    /\ UNCHANGED <<session, widgets, locals, requests, raised, crashed>>

(* The except clauses of show_data_options. *)
ErrorText(exc) == IF exc = "HttpError" THEN "HTTP error" ELSE "Unexpected error"

(* Handlers without the `except Exception` clause: only HttpError is caught. *)
RaisedOnlyHttpCaught(req, exc) ==
    /\ requests' = Append(requests, req)
    /\ raised' = [at |-> "execute", exc |-> exc]
    /\ IF exc = "HttpError"
       THEN /\ Show(Msg("error", ErrorText(exc)))
            /\ trace' = Append(trace, "render")
            /\ UNCHANGED crashed
       ELSE /\ crashed' = TRUE
            /\ UNCHANGED <<display, trace>>
    /\ pc' = "idle"
    /\ UNCHANGED <<session, widgets, locals, invoked>>

(* request.execute() raised exc: the request went out, the handler reports *)
Raised(req, exc) ==
    /\ requests' = Append(requests, req)
    /\ raised' = [at |-> "execute", exc |-> exc]
    /\ Show(Msg("error", ErrorText(exc)))
    /\ trace' = Append(trace, "render")
    /\ pc' = "idle"
    /\ UNCHANGED <<session, widgets, locals, invoked, crashed>>

(* A fetcher that follows the first page with a request for the next one. *)
CallOkNextPage ==
    /\ pc = "call"
    /\ requests' = requests \o
            <<RequestOf(invoked[Len(invoked)], youtube),
              [RequestOf(invoked[Len(invoked)], youtube) EXCEPT !.part = "nextPage"]>>
    /\ response' = "json"
    /\ pc' = "render"
    /\ UNCHANGED <<session, widgets, youtube, items, channel_id, display, invoked, trace,
                   raised, crashed>>

(* fetch_liked_videos / fetch_subscriptions / fetch_playlists:              *)
(* request = youtube.<resource>().list(...); return request.execute()       *)
CallOk ==
    /\ pc = "call"
    /\ requests' = Append(requests, RequestOf(invoked[Len(invoked)], youtube))
    /\ response' = "json"
    /\ pc' = "render"
    /\ UNCHANGED <<session, widgets, youtube, items, channel_id, display, invoked, trace,
                   raised, crashed>>

CallRaises ==
    /\ pc = "call"
    /\ \E exc \in Exceptions : Raised(RequestOf(invoked[Len(invoked)], youtube), exc)

(* A lookup that takes the id of the last item instead of the first. *)
ChannelsOkLastItem ==
    /\ pc = "channels"
    /\ requests' = Append(requests, ChannelsReq(youtube))
    /\ \E resp \in ChannelsResponses :
          /\ items' = ItemsOf(resp)
          /\ IF items' = <<>>
             THEN /\ Show(Msg("warning", "No channel found for this account."))
                  /\ response' = None
                  /\ pc' = "render"
                  /\ UNCHANGED channel_id
             ELSE /\ channel_id' = items'[Len(items')]
                  /\ pc' = "threads"
                  /\ UNCHANGED <<display, response>>
    /\ UNCHANGED <<session, widgets, youtube, invoked, trace, raised, crashed>>

(* fetch_channel_comments: youtube.channels().list(part="id", mine=True)    *)
(* .execute(); items = ...; if not items: warning, return None;             *)
(* channel_id = items[0]["id"]                                              *)
ChannelsOk ==
    /\ pc = "channels"
    /\ requests' = Append(requests, ChannelsReq(youtube))
    /\ \E resp \in ChannelsResponses :
          /\ items' = ItemsOf(resp)
          /\ IF items' = <<>>
             THEN /\ Show(Msg("warning", "No channel found for this account."))
                  /\ response' = None
                  /\ pc' = "render"
                  /\ UNCHANGED channel_id
             ELSE /\ channel_id' = items'[1]
                  /\ pc' = "threads"
                  /\ UNCHANGED <<display, response>>
    /\ UNCHANGED <<session, widgets, youtube, invoked, trace, raised, crashed>>

ChannelsRaises ==
    /\ pc = "channels"
    /\ \E exc \in Exceptions : Raised(ChannelsReq(youtube), exc)

(* youtube.commentThreads().list(...); return request.execute() *)
ThreadsOk ==
    /\ pc = "threads"
    /\ requests' = Append(requests, CommentThreadsReq(youtube, channel_id))
    /\ response' = "json"
    /\ pc' = "render"
    /\ UNCHANGED <<session, widgets, youtube, items, channel_id, display, invoked, trace,
                   raised, crashed>>

ThreadsRaises ==
    /\ pc = "threads"
    /\ \E exc \in Exceptions : Raised(CommentThreadsReq(youtube, channel_id), exc)

(* if response is not None: st.json(response) else: st.warning(...) *)
Render ==
    /\ pc = "render"
    /\ IF response # None
       THEN Show(Msg("json", response))
       ELSE Show(Msg("warning", "No data returned. Possibly the data is private or unavailable."))
    /\ trace' = Append(trace, "render")
    /\ pc' = "idle"
    /\ UNCHANGED <<session, widgets, locals, requests, invoked, raised, crashed>>

----------------------------------------------------------------------------
Script ==
    \/ SessionCheck
    \/ BuildAuthOk
    \/ BuildAuthRaises
    \/ CodeCheck
    \/ ExchangeOk
    \/ ExchangeFail
    \/ ClearParams
    \/ BuildNewOk
    \/ BuildNewRaises
    \/ ShowSelector
    \/ Dispatch
    \/ CallOk
    \/ CallRaises
    \/ ChannelsOk
    \/ ChannelsRaises
    \/ ThreadsOk
    \/ ThreadsRaises
    \/ Render

Next == Rerun \/ SelectOption \/ ClickFetch \/ Script

Spec == Init /\ [][Next]_vars

(* show_data_options driven with a st.radio that may return any label. *)
NextAnyOption == Rerun \/ SelectAnyOption \/ ClickFetch \/ Script

SpecAnyOption == Init /\ [][NextAnyOption]_vars

----------------------------------------------------------------------------
(* Helpers of the properties *)

Has(kind, text) == \E i \in 1..Len(display) : display[i] = Msg(kind, text)

Count(seq, x) == Cardinality({i \in 1..Len(seq) : seq[i] = x})

Last(seq) == seq[Len(seq)]

(* What show_data_options has put on the page after the button. *)
AfterButton ==
    LET b == CHOOSE i \in 1..Len(display) : display[i].kind = "button"
    IN  SubSeq(display, b + 1, Len(display))

Rank(phase) ==
    CASE phase = "session_check" -> 1
      [] phase = "code_check" -> 2
      [] phase \in {"auth_link", "exchange"} -> 3
      [] phase = "selector" -> 4
      [] phase = "fetch" -> 5
      [] phase = "render" -> 6

(* The page load is over and went through show_data_options. *)
SubmitDone == pc = "idle" /\ clicked /\ Count(trace, "selector") = 1

----------------------------------------------------------------------------
(* C1: no API request is issued and the selector is never shown unless the *)
(* session holds credentials that a successful token exchange of this      *)
(* session returned; the phases of a page load occur in the order session  *)
(* check, code check, auth link or exchange, selector, at most one fetch,  *)
(* render, and a page load begins with the session check.                  *)
C1_AuthBeforeData ==
    /\ (requests # <<>> \/ invoked # <<>> \/ SelectorOnPage
            \/ pc \in {"selector", "dispatch", "call", "channels", "threads", "render"})
          => (credentials # NoCred /\ credentials \in okBundles)
    /\ \A i, j \in 1..Len(trace) : i < j => Rank(trace[i]) < Rank(trace[j])
    /\ trace # <<>> => trace[1] = "session_check"
    /\ Count(trace, "selector") = 1 =>
          (Count(trace, "exchange") = 1 \/ Count(trace, "code_check") = 0)
    /\ Len(invoked) <= 1
    /\ Count(trace, "fetch") = Len(invoked)

(* A page load that passed the selector, ran a fetch and rendered it. *)
C1_Witness ==
    /\ pc = "idle"
    /\ trace = <<"session_check", "selector", "fetch", "render">>
    /\ requests # <<>>

(* C2: the session's credentials change only in the step in which          *)
(* flow.fetch_token returns without error, once present they are never     *)
(* changed again, and every API request is made with exactly them.         *)
C2_CredentialsStable ==
    [][/\ credentials # NoCred => credentials' = credentials
       /\ credentials' # credentials =>
             /\ pc = "exchange"
             /\ raised' = NoRaise
             /\ credentials' \in okBundles' \ okBundles
       /\ \A i \in 1..Len(requests') : requests'[i].cred = credentials'
      ]_vars

(* Credentials stored in an earlier page load are used by a later fetch. *)
C2_Witness ==
    /\ credentials # NoCred
    /\ loads >= 3
    /\ Len(requests) = 2
    /\ requests[2].cred = credentials

(* C3: a code value is passed to the token exchange at most once in the    *)
(* session.                                                                *)
C3_CodeExchangedOnce ==
    \A i, j \in 1..Len(exchangeLog) : i # j => exchangeLog[i] # exchangeLog[j]

(* C4: a page load in which the token exchange or an API request raised    *)
(* ends with the matching error message as the last thing displayed, with  *)
(* no uncaught exception, and with the failed call made once: nothing is   *)
(* requested after the failure and the exchange is attempted once.         *)
C4_FailuresReported ==
    (pc = "idle" /\ raised.at \in {"fetch_token", "execute"}) =>
        /\ ~crashed
        /\ Last(display).kind = "error"
        /\ raised.at = "fetch_token" =>
              /\ Last(display).text = "Error fetching token"
              /\ Count(trace, "exchange") = 1
              /\ requests = <<>>
        /\ raised.at = "execute" =>
              /\ raised.exc = "HttpError" => Last(display).text = "HTTP error"
              /\ raised.exc # "HttpError" => Last(display).text = "Unexpected error"
              /\ Count(display, Last(display)) = 1
              /\ Count(requests, Last(requests)) = 1
              /\ Len(requests) <= 2
              /\ Len(requests) = 2 => requests[1].api = "channels"

(* An API request raised something other than HttpError. *)
C4_Witness ==
    /\ pc = "idle"
    /\ raised = [at |-> "execute", exc |-> "Exception"]
    /\ Len(requests) = 2

(* C5: a page load whose token exchange failed made one exchange attempt,  *)
(* shows "Error fetching token", leaves the session without credentials    *)
(* and the code in the URL, shows no selector and issues no API request.   *)
C5_FailedExchange ==
    (pc = "idle" /\ raised.at = "fetch_token") =>
        /\ Count(trace, "exchange") = 1
        /\ Has("error", "Error fetching token")
        /\ credentials = NoCred
        /\ queryCode # NoCode
        /\ queryCode = Last(exchangeLog)
        /\ ~SelectorOnPage
        /\ requests = <<>>
        /\ invoked = <<>>

(* The exchange failed, also when it had failed in the page load before. *)
C5_Witness ==
    /\ pc = "idle"
    /\ raised.at = "fetch_token"
    /\ Len(exchangeLog) = 2

(* C6: a submit with "Shares (Placeholder)" selected issues no API request *)
(* and calls no fetcher at any point of the page load; when it is over the *)
(* warning is what the submit displayed and the credentials are those the  *)
(* client was built with.                                                  *)
C6_SharesNoNetwork ==
    (clicked /\ option = Shares) =>
        /\ requests = <<>>
        /\ invoked = <<>>
        /\ SubmitDone =>
              /\ AfterButton =
                    <<Msg("warning", "YouTube API does not provide direct 'Shares' data.")>>
              /\ credentials = youtube
              /\ credentials \in okBundles
              /\ raised = NoRaise
              /\ ~crashed

C6_Witness == SubmitDone /\ option = Shares

(* C7: in a Comments submit whose channels lookup returned, no items means *)
(* no commentThreads request, a null result and two warnings with no error *)
(* and no exception; at least one item means that, when the page load is   *)
(* over, exactly one commentThreads request was issued, for the id of the  *)
(* first item.                                                             *)
C7_CommentsChannelLookup ==
    (SubmitDone /\ option = Comments
        /\ ~(raised.at = "execute" /\ Len(requests) = 1)) =>
        /\ requests # <<>>
        /\ requests[1].api = "channels"
        /\ items = <<>> =>
              /\ Len(requests) = 1
              /\ response = None
              /\ AfterButton =
                    <<Msg("warning", "No channel found for this account."),
                      Msg("warning", "No data returned. Possibly the data is private or unavailable.")>>
              /\ raised = NoRaise
              /\ ~crashed
        /\ items # <<>> =>
              /\ Len(requests) = 2
              /\ requests[2].api = "commentThreads"
              /\ requests[2].filter = <<"allThreadsRelatedToChannelId", items[1]>>

(* The lookup returned no item. *)
C7_Witness ==
    /\ SubmitDone
    /\ option = Comments
    /\ requests # <<>>
    /\ raised = NoRaise
    /\ items = <<>>

(* The lookup returned two items. *)
C7_WitnessItems ==
    /\ SubmitDone
    /\ option = Comments
    /\ Len(items) = 2
    /\ Len(requests) = 2

(* C8, as stated: every fetcher, Comments included, issues exactly one     *)
(* request per submit, with maxResults=10 and a mine or myRating filter.   *)
C8_EveryFetcherOneRequest ==
    (pc = "idle" /\ invoked # <<>>) =>
        /\ Len(requests) = 1
        /\ requests[1].maxResults = {10}
        /\ requests[1].filter[1] \in {"mine", "myRating"}

(* C8, amended: Liked Videos, Subscriptions and Playlists issue exactly    *)
(* one request each, with their fixed part, their mine/myRating filter and *)
(* maxResults=10; Comments issues one channels request (part=id, mine, no  *)
(* maxResults) followed by at most one commentThreads request (part=       *)
(* snippet, the channel filter, maxResults=10); nothing else is requested. *)
C8_FixedParameters ==
    (pc = "idle" /\ invoked # <<>>) =>
        /\ invoked[1] = "fetch_liked_videos" =>
              requests = <<[api |-> "videos", part |-> "snippet,contentDetails",
                            filter |-> <<"myRating", "like">>, maxResults |-> {10},
                            cred |-> credentials]>>
        /\ invoked[1] = "fetch_subscriptions" =>
              requests = <<[api |-> "subscriptions", part |-> "snippet,contentDetails",
                            filter |-> <<"mine", "True">>, maxResults |-> {10},
                            cred |-> credentials]>>
        /\ invoked[1] = "fetch_playlists" =>
              requests = <<[api |-> "playlists", part |-> "snippet,contentDetails",
                            filter |-> <<"mine", "True">>, maxResults |-> {10},
                            cred |-> credentials]>>
        /\ invoked[1] = "fetch_channel_comments" =>
              /\ Len(requests) \in {1, 2}
              /\ requests[1] = [api |-> "channels", part |-> "id",
                                filter |-> <<"mine", "True">>, maxResults |-> {},
                                cred |-> credentials]
              /\ Len(requests) = 2 =>
                    \E id \in {"UC1", "UC2"} :
                        requests[2] = [api |-> "commentThreads", part |-> "snippet",
                                       filter |-> <<"allThreadsRelatedToChannelId", id>>,
                                       maxResults |-> {10}, cred |-> credentials]

(* A Liked Videos submit that returned data. *)
C8_Witness ==
    /\ pc = "idle"
    /\ invoked = <<"fetch_liked_videos">>
    /\ Has("json", "json")

(* C9: a submit invokes exactly the fetcher of the selected label, and its *)
(* request goes to that fetcher's resource; "Shares (Placeholder)" invokes *)
(* none; a label outside the menu invokes none and displays "Invalid       *)
(* option selected."; a page load without a submit invokes none.           *)
C9_Dispatch ==
    /\ Len(invoked) <= 1
    /\ invoked # <<>> => (clicked /\ Count(trace, "selector") = 1)
    /\ SubmitDone =>
          /\ option = LikedVideos => invoked = <<"fetch_liked_videos">>
          /\ option = Comments => invoked = <<"fetch_channel_comments">>
          /\ option = Playlists => invoked = <<"fetch_playlists">>
          /\ option = Subscriptions => invoked = <<"fetch_subscriptions">>
          /\ option = Shares => invoked = <<>>
          /\ option \notin Options =>
                /\ invoked = <<>>
                /\ requests = <<>>
                /\ AfterButton = <<Msg("error", "Invalid option selected.")>>
          /\ requests # <<>> =>
                requests[1].api =
                    CASE option = LikedVideos -> "videos"
                      [] option = Comments -> "channels"
                      [] option = Playlists -> "playlists"
                      [] option = Subscriptions -> "subscriptions"

(* A submit with a label outside the menu. *)
C9_Witness == SubmitDone /\ option \notin Options

(* A Subscriptions submit. *)
C9_WitnessFetcher == SubmitDone /\ option = Subscriptions /\ requests # <<>>

(* C10: when "Error fetching token" is displayed the session holds no      *)
(* credentials (the exchange itself failed).                               *)
C10_TokenErrorMeansNoCredentials ==
    Has("error", "Error fetching token") =>
        (credentials = NoCred /\ raised.at = "fetch_token")

====
